---- MODULE Spec2Model ----
(***************************************************************************)
(* A model of src/src/fib.rs: the Fibonacci circuit (FibChip, FibCircuit)  *)
(* driven by the proving backend the way test_fib drives it: configure,    *)
(* synthesize (assign_first_row, seven assign_next_row, expose_public) and *)
(* then the backend's verification of gates and copy constraints.          *)
(*                                                                         *)
(* The field Fp is modelled as the integers modulo FieldModulus.  The      *)
(* backend calls made by the chip (enable, assign_advice, copy_advice,     *)
(* constrain_instance, assign_region of the simple floor planner) are      *)
(* modelled by their effect on the constraint system `cs`.                 *)
(***************************************************************************)
EXTENDS Integers, Sequences, FiniteSets, TLC

VARIABLES
    pc,         \* position in MockProver::run: configure, synthesize's steps, verify
    circuit,    \* FibCircuit {a, b}: the seed values
    instance,   \* the public input vector handed to the backend
    meta,       \* ConstraintSystem after configure: columns, equality, gates
    cs,         \* the backend's trace: selectors, advice, assigned cells, copies
    columns,    \* the floor planner's first free row of every column
    a,          \* synthesize's local `a` (an AssignedCell)
    b,          \* synthesize's local `b` (an AssignedCell)
    i,          \* the loop variable of `for _i in 3..10`
    trace,      \* history: the chip operations performed so far, in order
    fault,      \* the backend call that returns Err in this run, if any
    first_ret,  \* what assign_first_row gave its caller
    outcome,    \* how synthesize ended
    failures    \* the failures verification reported

vars == <<pc, circuit, instance, meta, cs, columns, a, b, i, trace, fault,
          first_ret, outcome, failures>>

----------------------------------------------------------------------------
(* Bounds of the model *)

\* The field is Z/FieldModulus (Fp in the source is the 255-bit Pallas field).
FieldModulus == 59
\* Known seed values are drawn from 0..MaxSeed and the top of the field.
MaxSeed == 2
\* The gate specification draws a trace window of rows 0..GateRows, with
\* advice values from 0..MaxGateValue and the top of the field.
GateRows == 1
MaxGateValue == 1

(* Program constants *)

\* MockProver::run(5, ...): the trace has 2^k rows.
k == 5
\* for _i in 3..10
LoopStart == 3
LoopEnd == 10
\* Fp::from(55), the public input of test_fib
Target == 55
\* Fp::one(), the seeds of test_fib
One == 1

Field == 0 .. (FieldModulus - 1)
NumRows == 2 ^ k
Rows == 0 .. (NumRows - 1)

\* Value::unknown(), the value of FibCircuit::default()
Unknown == -1

Values == Field \cup {Unknown}

\* Value<F> + Value<F>: field addition, unknown if either side is unknown
FAddWide(x, y) == IF x = Unknown \/ y = Unknown THEN Unknown ELSE x + y
FAdd(x, y) == IF x = Unknown \/ y = Unknown THEN Unknown
              ELSE (x + y) % FieldModulus

AdviceColumns == {"a", "b"}
AdviceCells == AdviceColumns \X Rows

\* AssignedCell { value, cell }
AssignedCell(col, row, v) == [cell |-> <<col, row>>, value |-> v]
NoCell == [cell |-> <<"none", 0>>, value |-> Unknown]

GateName == "a + b = next_b"

EmptyMeta == [columns |-> {}, equality |-> {}, gates |-> {}]
\* FibChip::configure
FibConfig ==
    [columns |-> {"selector", "a", "b", "target"},
     equality |-> {"a", "b", "target"},
     gates |-> {GateName}]

EmptyCs == [selectors |-> {},
            advice |-> [c \in AdviceCells |-> 0],
            assigned |-> {},
            copies |-> {}]

NoFault == [op |-> "none", iter |-> 0, call |-> 0]

----------------------------------------------------------------------------
(* Backend calls *)

\* selector.enable(&mut region, offset)
EnableSelector(s, row) == [s EXCEPT !.selectors = @ \cup {row}]

\* region.assign_advice(.., column, offset, || value)
AssignAdviceKnownOnly(s, col, row, v) ==
    IF v = Unknown THEN s
    ELSE [s EXCEPT !.advice[<<col, row>>] = v,
                   !.assigned = @ \cup {<<col, row>>}]
AssignAdvice(s, col, row, v) ==
    [s EXCEPT !.advice[<<col, row>>] = v,
              !.assigned = @ \cup {<<col, row>>}]

\* region.constrain_equal / layouter.constrain_instance: an equality edge
ConstrainEqual(s, c1, c2) == [s EXCEPT !.copies = @ \cup {{c1, c2}}]

\* cell.copy_advice(.., column, offset): assign the cell's value, then
\* constrain the new cell equal to the source cell
CopiedCell(src, col, row) == AssignedCell(col, row, src.value)
CopyAdviceNoEdge(s, src, col, row) == AssignAdvice(s, col, row, src.value)
CopyAdvice(s, src, col, row) ==
    ConstrainEqual(AssignAdvice(s, col, row, src.value), <<col, row>>, src.cell)

\* layouter.assign_region of the simple floor planner: the region starts at
\* the first row free in every column it uses (here selector, a and b)
RegionColumns == {"selector", "a", "b"}
RegionRowCount == 1 + 1
MaxOf(S) == CHOOSE x \in S : \A y \in S : y <= x
RegionStart(cols) == MaxOf({cols[c] : c \in RegionColumns})
PlaceRegion(cols) ==
    [c \in DOMAIN cols |->
        IF c \in RegionColumns THEN RegionStart(cols) + RegionRowCount
        ELSE cols[c]]

----------------------------------------------------------------------------
(* Initial states *)

InitCommon ==
    /\ pc = "configure"
    /\ meta = EmptyMeta
    /\ cs = EmptyCs
    /\ columns = [c \in RegionColumns |-> 0]
    /\ a = NoCell
    /\ b = NoCell
    /\ i = LoopStart
    /\ trace = <<>>
    /\ first_ret = "pending"
    /\ outcome = "running"
    /\ failures = {}

KnownSeeds == (0 .. MaxSeed) \cup {FieldModulus - 1}
\* FibCircuit {a, b} with known seeds, or FibCircuit::default()
Circuits == {[a |-> x, b |-> y] : x \in KnownSeeds, y \in KnownSeeds}
            \cup {[a |-> Unknown, b |-> Unknown]}

Init ==
    /\ InitCommon
    /\ circuit \in Circuits
    /\ \E v \in Field : instance = <<v>>
    /\ fault = NoFault

----------------------------------------------------------------------------
(* Operations *)

\* MockProver::run calls Circuit::configure, which is FibChip::configure
Configure ==
    /\ pc = "configure"
    /\ meta' = FibConfig
    /\ trace' = Append(trace, "Configure")
    /\ pc' = "first"
    /\ UNCHANGED <<circuit, instance, cs, columns, a, b, i, fault, first_ret,
                   outcome, failures>>

\* The region of assign_first_row, calls in order, placed at row `start`
FirstRowRegion(s, start, va, vb) ==
    LET s1 == EnableSelector(s, start)
        s2 == AssignAdvice(s1, "a", start, va)
        s3 == AssignAdvice(s2, "b", start, vb)
    IN  AssignAdvice(s3, "b", start + 1, FAdd(va, vb))

\* FibChip::assign_first_row, every backend call succeeding
AssignFirstRow ==
    /\ pc = "first"
    /\ fault.op # "first"
    /\ LET start == RegionStart(columns)
       IN  /\ cs' = FirstRowRegion(cs, start, circuit.a, circuit.b)
           /\ a' = AssignedCell("b", start, circuit.b)
           /\ b' = AssignedCell("b", start + 1, FAdd(circuit.a, circuit.b))
    /\ columns' = PlaceRegion(columns)
    /\ first_ret' = "Ok"
    /\ i' = LoopStart
    /\ trace' = Append(trace, "AssignFirstRow")
    /\ pc' = "loop"
    /\ UNCHANGED <<circuit, instance, meta, fault, outcome, failures>>

\* for _i in 3..10
InLoopInclusive(n) == n <= LoopEnd
InLoop(n) == n < LoopEnd

\* The region of assign_next_row and the sum it computes from the copied
\* cells cur_a and cur_b
NextRowSum(pre_b, pre_c, start) ==
    FAdd(CopiedCell(pre_b, "a", start).value, CopiedCell(pre_c, "b", start).value)
NextRowCopiesSwapped(s, start, pre_b, pre_c) ==
    CopyAdvice(CopyAdvice(EnableSelector(s, start), pre_c, "a", start),
               pre_b, "b", start)
NextRowCopies(s, start, pre_b, pre_c) ==
    CopyAdvice(CopyAdvice(EnableSelector(s, start), pre_b, "a", start),
               pre_c, "b", start)
NextRowRegion(s, start, pre_b, pre_c) ==
    AssignAdvice(NextRowCopies(s, start, pre_b, pre_c), "b", start + 1,
                 NextRowSum(pre_b, pre_c, start))

\* FibChip::assign_next_row, called from the loop of synthesize
AssignNextRow ==
    /\ pc = "loop"
    /\ InLoop(i)
    /\ ~(fault.op = "next" /\ fault.iter = i)
    /\ LET start == RegionStart(columns)
       IN  /\ cs' = NextRowRegion(cs, start, a, b)
           /\ a' = CopiedCell(b, "b", start)
           /\ b' = AssignedCell("b", start + 1, NextRowSum(a, b, start))
    /\ columns' = PlaceRegion(columns)
    /\ i' = i + 1
    /\ trace' = Append(trace, "AssignNextRow")
    /\ UNCHANGED <<pc, circuit, instance, meta, fault, first_ret, outcome,
                   failures>>

\* fib.expose_public(layouter, &b, 0)
InstanceRow == 0
ExposedCell == b

\* FibChip::expose_public, after the loop; synthesize then returns Ok(())
ExposePublic ==
    /\ pc = "loop"
    /\ ~InLoop(i)
    /\ fault.op # "expose"
    /\ cs' = ConstrainEqual(cs, ExposedCell.cell, <<"target", InstanceRow>>)
    /\ trace' = Append(trace, "ExposePublic")
    /\ outcome' = "Ok"
    /\ pc' = "done"
    /\ UNCHANGED <<circuit, instance, meta, columns, a, b, i, fault, first_ret,
                   failures>>

----------------------------------------------------------------------------
(* Verification: prover.assert_satisfied() *)

\* the public input column: the vector given, padded with zeros
InstanceAt(inst, row) == IF row < Len(inst) THEN inst[row + 1] ELSE 0

CellValueAt(s, inst, c) ==
    IF c[1] = "target" THEN InstanceAt(inst, c[2]) ELSE s.advice[c]

SelectorValue(s, r) == IF r \in s.selectors THEN 1 ELSE 0

\* selector * (num_a + num_b - next_b)
GatePolyMinus(selector, num_a, num_b, next_b) ==
    (selector * ((num_a - num_b - next_b) % FieldModulus)) % FieldModulus
GatePolyNoSelector(selector, num_a, num_b, next_b) ==
    (num_a + num_b - next_b) % FieldModulus
GatePoly(selector, num_a, num_b, next_b) ==
    (selector * ((num_a + num_b - next_b) % FieldModulus)) % FieldModulus

\* the gate's queries at row r: a and b at Rotation::cur, b at Rotation::next
GateAt(s, r) ==
    GatePoly(SelectorValue(s, r),
             s.advice[<<"a", r>>],
             s.advice[<<"b", r>>],
             s.advice[<<"b", (r + 1) % NumRows>>])

GateFailure(r) == [kind |-> "Gate", name |-> GateName, row |-> r]
PermutationFailure(c) == [kind |-> "Permutation", name |-> c[1], row |-> c[2]]

GateFailures(m, s) ==
    {GateFailure(r) : r \in {x \in Rows : GateName \in m.gates /\ GateAt(s, x) # 0}}

\* a copy constraint fails when the two cells it joins hold different values
BrokenEdges(s, inst) ==
    {e \in s.copies :
        \E c1 \in e, c2 \in e : CellValueAt(s, inst, c1) # CellValueAt(s, inst, c2)}
PermutationFailuresAdviceOnly(s, inst) ==
    {PermutationFailure(c) :
        c \in UNION {e \in BrokenEdges(s, inst) : \A x \in e : x[1] # "target"}}
PermutationFailures(s, inst) ==
    {PermutationFailure(c) : c \in UNION BrokenEdges(s, inst)}

VerifyFailures(m, s, inst) == GateFailures(m, s) \cup PermutationFailures(s, inst)

\* the mock prover holds field elements only
WitnessKnown(s) == \A c \in AdviceCells : s.advice[c] # Unknown

\* MockProver verification of a synthesized trace with known witness
Verify ==
    /\ pc = "done"
    /\ WitnessKnown(cs)
    /\ failures' = VerifyFailures(meta, cs, instance)
    /\ pc' = "verified"
    /\ UNCHANGED <<circuit, instance, meta, cs, columns, a, b, i, trace, fault,
                   first_ret, outcome>>

Next ==
    \/ Configure
    \/ AssignFirstRow
    \/ AssignNextRow
    \/ ExposePublic
    \/ Verify

Spec == Init /\ [][Next]_vars

\* synthesize is straight-line code: every enabled step is eventually taken
FairSpec == Init /\ [][Next]_vars /\ WF_vars(Next)

----------------------------------------------------------------------------
(* A backend call that returns Err.  The chip takes any `impl Layouter<F>`; *)
(* every call it makes returns a Result, handled at the call site by `?`    *)
(* or by `.expect(..)`.                                                     *)

\* the calls of a region closure, in order
CallEnable == 1
CallFirst == 2
CallSecond == 3
CallSum == 4
RegionCalls == CallEnable .. CallSum

\* assign_first_row when backend call `call` fails: `?` on selector.enable
\* hands the Err to the caller, `.expect(..)` on assign_advice panics
FirstRowResultIgnored(call) == IF call = CallEnable THEN "Err" ELSE "Ok"
FirstRowResult(call) == IF call = CallEnable THEN "Err" ELSE "Panic"

\* the calls of the first-row region that took effect before the failing one
FirstRowPartial(s, start, va, vb, call) ==
    LET s1 == EnableSelector(s, start)
        s2 == AssignAdvice(s1, "a", start, va)
        s3 == AssignAdvice(s2, "b", start, vb)
    IN  IF call = CallEnable THEN s
        ELSE IF call = CallFirst THEN s1
        ELSE IF call = CallSecond THEN s2
        ELSE s3

\* synthesize's `.expect("...")` on the chip's result: an Err panics, and a
\* panic inside the chip unwinds through synthesize
ExpectResult(ret) == IF ret = "Ok" THEN "running" ELSE "Panic"

\* FibChip::assign_first_row with a failing backend call
AssignFirstRowFails ==
    /\ pc = "first"
    /\ fault.op = "first"
    /\ cs' = FirstRowPartial(cs, RegionStart(columns), circuit.a, circuit.b,
                             fault.call)
    /\ columns' = PlaceRegion(columns)
    /\ first_ret' = FirstRowResult(fault.call)
    /\ outcome' = ExpectResult(FirstRowResult(fault.call))
    /\ trace' = Append(trace, "AssignFirstRow")
    /\ pc' = "aborted"
    /\ UNCHANGED <<circuit, instance, meta, a, b, i, fault, failures>>

\* the calls of the next-row region that took effect before the failing one
NextRowPartial(s, start, pre_b, pre_c, call) ==
    LET s1 == EnableSelector(s, start)
        s2 == CopyAdvice(s1, pre_b, "a", start)
        s3 == CopyAdvice(s2, pre_c, "b", start)
    IN  IF call = CallEnable THEN s
        ELSE IF call = CallFirst THEN s1
        ELSE IF call = CallSecond THEN s2
        ELSE s3

\* FibChip::assign_next_row with a failing backend call: an Err from
\* selector.enable reaches synthesize's expect, the other calls panic in place
AssignNextRowFails ==
    /\ pc = "loop"
    /\ InLoop(i)
    /\ fault.op = "next"
    /\ fault.iter = i
    /\ cs' = NextRowPartial(cs, RegionStart(columns), a, b, fault.call)
    /\ columns' = PlaceRegion(columns)
    /\ outcome' = "Panic"
    /\ trace' = Append(trace, "AssignNextRow")
    /\ pc' = "aborted"
    /\ UNCHANGED <<circuit, instance, meta, a, b, i, fault, first_ret, failures>>

\* FibChip::expose_public with constrain_instance failing: `?` in synthesize
ExposePublicFails ==
    /\ pc = "loop"
    /\ ~InLoop(i)
    /\ fault.op = "expose"
    /\ outcome' = "Err"
    /\ trace' = Append(trace, "ExposePublic")
    /\ pc' = "aborted"
    /\ UNCHANGED <<circuit, instance, meta, cs, columns, a, b, i, fault,
                   first_ret, failures>>

FaultPlans ==
    {[op |-> "first", iter |-> 0, call |-> c] : c \in RegionCalls}
    \cup {[op |-> "next", iter |-> n, call |-> c] :
             n \in LoopStart .. (LoopEnd - 1), c \in RegionCalls}
    \cup {[op |-> "expose", iter |-> 0, call |-> CallEnable]}
    \cup {NoFault}

FaultInit ==
    /\ InitCommon
    /\ circuit \in Circuits
    /\ instance = <<Target>>
    /\ fault \in FaultPlans

FaultNext ==
    \/ Configure
    \/ AssignFirstRow
    \/ AssignFirstRowFails
    \/ AssignNextRow
    \/ AssignNextRowFails
    \/ ExposePublic
    \/ ExposePublicFails
    \/ Verify

FaultSpec == FaultInit /\ [][FaultNext]_vars

----------------------------------------------------------------------------
(* The gate as a function of the trace: verification applied to arbitrary   *)
(* selector and advice values on the rows 0..GateRows.                      *)

GateValues == (0 .. MaxGateValue) \cup {FieldModulus - 1}
GateWindow == AdviceColumns \X (0 .. GateRows)

GateInit ==
    /\ pc = "done"
    /\ meta = FibConfig
    /\ \E sel \in SUBSET (0 .. GateRows), w \in [GateWindow -> GateValues] :
          /\ cs = [selectors |-> sel,
                   advice |-> [c \in AdviceCells |->
                                  IF c \in GateWindow THEN w[c] ELSE 0],
                   assigned |-> GateWindow,
                   copies |-> {}]
          /\ circuit = [a |-> w[<<"a", 0>>], b |-> w[<<"b", 0>>]]
    /\ instance = <<0>>
    /\ columns = [c \in RegionColumns |-> GateRows + 1]
    /\ a = NoCell
    /\ b = NoCell
    /\ i = LoopEnd
    /\ trace = <<>>
    /\ fault = NoFault
    /\ first_ret = "Ok"
    /\ outcome = "Ok"
    /\ failures = {}

GateNext == Verify

GateSpec == GateInit /\ [][GateNext]_vars

----------------------------------------------------------------------------
(* Properties *)

TestCircuit == [a |-> One, b |-> One]
Synthesized == pc \in {"done", "verified"}
PublicBinding == {ExposedCell.cell, <<"target", InstanceRow>>}

\* C1: seeded with a=1, b=1, synthesize exposes the value 55 at instance row
\* 0, and with public input [55] verification reports no failure at all.
C1_TestFibSatisfied ==
    circuit = TestCircuit =>
        /\ Synthesized =>
              /\ ExposedCell.value = Target
              /\ PublicBinding \in cs.copies
        /\ (pc = "verified" /\ instance = <<Target>>) => failures = {}

C1_Witness ==
    /\ pc = "verified"
    /\ circuit = TestCircuit
    /\ instance = <<Target>>
    /\ ExposedCell.value = Target
    /\ failures = {}

\* C2: seeded with a=1, b=1, every public input other than 55 makes
\* verification report the equality between the last computed cell and
\* instance row 0 as unsatisfied.
C2_WrongPublicInputRejected ==
    (pc = "verified" /\ circuit = TestCircuit /\ instance[1] # Target) =>
        /\ PermutationFailure(<<"target", InstanceRow>>) \in failures
        /\ PermutationFailure(ExposedCell.cell) \in failures

C2_Witness ==
    /\ pc = "verified"
    /\ circuit = TestCircuit
    /\ instance = <<Target + 1>>
    /\ PermutationFailure(<<"target", InstanceRow>>) \in failures

\* the next row of the trace, as Rotation::next reads it
NextRowOf(r) == (r + 1) % NumRows
SumDiffers(r) ==
    (cs.advice[<<"a", r>>] + cs.advice[<<"b", r>>]) % FieldModulus
        # cs.advice[<<"b", NextRowOf(r)>>]

\* C3: on every selector-enabled row r with a[r] + b[r] # b[r+1] the gate is
\* reported unsatisfied at r; so a trace reported satisfied has
\* a[r] + b[r] = b[r+1] on every selector-enabled row.
C3_EnabledGateEnforced ==
    pc = "verified" =>
        /\ \A r \in cs.selectors : SumDiffers(r) => GateFailure(r) \in failures
        /\ failures = {} => \A r \in cs.selectors : ~SumDiffers(r)

C3_Witness ==
    /\ pc = "verified"
    /\ \E r \in cs.selectors : SumDiffers(r) /\ GateFailure(r) \in failures
    /\ \E r \in cs.selectors : ~SumDiffers(r) /\ GateFailure(r) \notin failures

\* C4: on a row where the selector is not enabled the gate never fails,
\* whatever the advice values are.
C4_DisabledGateSilent ==
    pc = "verified" =>
        \A r \in Rows \ cs.selectors : GateFailure(r) \notin failures

C4_Witness ==
    /\ pc = "verified"
    /\ \E r \in Rows \ cs.selectors : SumDiffers(r)
    /\ \E r \in cs.selectors : GateFailure(r) \in failures

\* the cells of a column that a step newly assigned
NewCells(col) == {c \in cs'.assigned \ cs.assigned : c[1] = col}

\* C5: every assign_next_row places in column a exactly the value of the cell
\* pre_b and in column b (local row 0) exactly the value of the cell pre_c,
\* and records an equality edge between each new cell and its source.
C5_CopyExact ==
    [][(pc = "loop" /\ InLoop(i) /\ i' = i + 1) =>
          /\ \E c \in NewCells("a") : TRUE
          /\ \A c \in NewCells("a") :
                /\ cs'.advice[c] = a.value
                /\ {c, a.cell} \in cs'.copies
          /\ a'.cell \in NewCells("b")
          /\ cs'.advice[a'.cell] = b.value
          /\ a'.value = b.value
          /\ {a'.cell, b.cell} \in cs'.copies]_vars

C5_Witness ==
    /\ pc = "loop"
    /\ i = LoopStart + 1
    /\ circuit.b = FieldModulus - 1
    /\ cs.advice[<<"a", RegionRowCount>>] = FieldModulus - 1
    /\ {<<"a", RegionRowCount>>, <<"b", 0>>} \in cs.copies
    /\ {a.cell, <<"b", 1>>} \in cs.copies

IsPrefix(s, t) == Len(s) <= Len(t) /\ \A n \in 1 .. Len(s) : s[n] = t[n]

ExpectedOrder ==
    <<"Configure", "AssignFirstRow",
      "AssignNextRow", "AssignNextRow", "AssignNextRow", "AssignNextRow",
      "AssignNextRow", "AssignNextRow", "AssignNextRow",
      "ExposePublic">>

C8_ErrorReturned ==
    (pc = "aborted" /\ fault.op = "first") => first_ret = "Err"

\* C8 as the code has it: AssignFirstRow never returns Ok when one of its
\* backend calls fails; a failed selector.enable is returned as Err, a failed
\* advice assignment panics inside AssignFirstRow, and synthesize panics in
\* both cases.
C8_FailsOrPanics ==
    (fault.op = "first" /\ pc # "configure" /\ pc # "first") =>
        /\ pc = "aborted"
        /\ first_ret = (IF fault.call = CallEnable THEN "Err" ELSE "Panic")
        /\ outcome = "Panic"

C8_Witness ==
    /\ pc = "aborted"
    /\ fault.op = "first"
    /\ fault.call = CallSum
    /\ first_ret = "Panic"
    /\ <<"b", 0>> \in cs.assigned

\* t1 = a0, t2 = b0, t(n+2) = t(n) + t(n+1) in the field
RECURSIVE T(_, _, _)
T(n, x, y) ==
    IF n = 1 THEN x
    ELSE IF n = 2 THEN y
    ELSE (T(n - 2, x, y) + T(n - 1, x, y)) % FieldModulus

\* the number of AssignNextRow calls completed
NextRowsDone == i - LoopStart

\* C9: for known seeds (a0, b0), after AssignFirstRow the carried pair is
\* (t2, t3), after the j-th AssignNextRow it is (t(j+2), t(j+3)), each new
\* row's a is the previous row's b and its b the previous sum, and the value
\* exposed to the instance column is t10 = 21*a0 + 34*b0.
C9_Recurrence ==
    (circuit.a # Unknown /\ circuit.b # Unknown) =>
        /\ (pc = "loop" \/ Synthesized) =>
              /\ a.value = T(NextRowsDone + 2, circuit.a, circuit.b)
              /\ b.value = T(NextRowsDone + 3, circuit.a, circuit.b)
              /\ \A j \in 1 .. NextRowsDone :
                    /\ cs.advice[<<"a", 2 * j>>] = cs.advice[<<"b", 2 * j - 2>>]
                    /\ cs.advice[<<"b", 2 * j>>] = cs.advice[<<"b", 2 * j - 1>>]
                    /\ cs.advice[<<"b", 2 * j + 1>>] =
                          T(j + 3, circuit.a, circuit.b)
        /\ Synthesized =>
              /\ NextRowsDone = 7
              /\ ExposedCell.value = (21 * circuit.a + 34 * circuit.b) % FieldModulus
              /\ PublicBinding \in cs.copies

C9_Witness ==
    /\ pc = "done"
    /\ circuit = [a |-> MaxSeed, b |-> FieldModulus - 1]
    /\ b.value = (21 * MaxSeed + 34 * (FieldModulus - 1)) % FieldModulus
    /\ 21 * MaxSeed + 34 * (FieldModulus - 1) >= FieldModulus

\* the shape after n regions, a function of n alone
ShapeCells(n) ==
    UNION {{<<"a", 2 * j>>, <<"b", 2 * j>>, <<"b", 2 * j + 1>>} : j \in 0 .. (n - 1)}
ShapeSelectors(n) == {2 * j : j \in 0 .. (n - 1)}
ShapeCopies(n) ==
    UNION {{{<<"a", 2 * j>>, <<"b", 2 * j - 2>>},
            {<<"b", 2 * j>>, <<"b", 2 * j - 1>>}} : j \in 1 .. (n - 1)}
RegionsDone == IF pc \in {"configure", "first"} THEN 0 ELSE 1 + NextRowsDone

\* C10: the shape does not depend on the seeds, known or unknown: the
\* assigned cell positions, the selector rows, the copy edges, the instance
\* binding and the number of region steps are the same function of the
\* position in synthesize for every circuit.
C10_ShapeIndependent ==
    /\ cs.assigned = ShapeCells(RegionsDone)
    /\ cs.selectors = ShapeSelectors(RegionsDone)
    /\ cs.copies = ShapeCopies(RegionsDone)
                   \cup (IF Synthesized THEN {{<<"b", 15>>, <<"target", 0>>}} ELSE {})
    /\ columns = [c \in RegionColumns |-> 2 * RegionsDone]
    /\ Synthesized => (RegionsDone = 8 /\ meta = FibConfig)

C10_Witness ==
    /\ pc = "done"
    /\ circuit = [a |-> Unknown, b |-> Unknown]
    /\ cs.assigned = ShapeCells(8)
    /\ b.value = Unknown

====
